---- MODULE Spec2Model ----
(***************************************************************************)
(* Model of the platformer collision core of make-mini-games,              *)
(* snippets/collision_platforms.py: CollisionFlag, check_collision,        *)
(* Player.__init__, Player.move, Block.__init__.  The top-down variant     *)
(* snippets/collision.py and the earlier platformer                        *)
(* snippets/platform_stage.py have sections of their own further down.     *)
(*                                                                         *)
(* Units.  pygame.Vector2 holds floats, pygame.Rect holds ints.  Every     *)
(* Vector2 coordinate of the model (pos.x, pos.y) is an integer number of  *)
(* HALF pixels, so that the fractional positions produced by pos + v * dt  *)
(* and their truncation into a pygame.Rect are both represented exactly.   *)
(* Rect fields are whole pixels.  Velocities are pixels per second (the    *)
(* program only produces multiples of 10).  dt is an integer number of     *)
(* QUARTER seconds, so v * dt is a whole number of half pixels.            *)
(***************************************************************************)
EXTENDS Integers, Sequences, FiniteSets, TLC

VARIABLES
    objectives,           \* the platform list handed to Player.move (fixed per run)
    pos,                  \* Player.pos, half pixels
    v,                    \* Player.v, pixels per second
    on_ground,            \* Player.on_ground
    jump_key_is_holding,  \* Player.jump_key_is_holding
    rect,                 \* Player.rect, whole pixels
    last,                 \* record of the last call of Player.move (history)
    prev_w,               \* K_w as polled by the previous call of move (history)
    hold_jumps,           \* jump impulses during the current unbroken hold of K_w (history)
    frame,                \* number of calls of move so far
    cc_in,                \* arguments of a stand-alone call of check_collision
    cc_out,               \* its result, -1 before the call
    jumping               \* Player.jumping of snippets/platform_stage.py

vars == <<objectives, pos, v, on_ground, jump_key_is_holding, rect,
          last, prev_w, hold_jumps, frame, cc_in, cc_out, jumping>>

-----------------------------------------------------------------------------
(* Program constants *)

FALLING_SPEED == 20
MAX_SPEED == 650
speed == 200
jumping_speed == 650
width == 40
height == 40

(* CollisionFlag(Flag): auto() numbers the members 1, 2, 4, 8 *)
NONE == 0
ON_BOTTOM == 1
ON_TOP == 2
ON_LEFT == 4
ON_RIGHT == 8
ON_BOTTOM_LEFT == ON_BOTTOM + ON_LEFT
ON_BOTTOM_RIGHT == ON_BOTTOM + ON_RIGHT
ON_TOP_LEFT == ON_TOP + ON_LEFT
ON_TOP_RIGHT == ON_TOP + ON_RIGHT

-----------------------------------------------------------------------------
(* Bounds of the model *)

\* dt is 0, a quarter second, or 1 second up to MaxDt4 quarter seconds
MaxDt4 == 4
\* move is called at most MaxFrames times in a run
MaxFrames == 4
\* a long fall: up to MaxFallFrames calls of move with dt = 0 before the
\* calls that are followed, and at most MaxFallCalls calls after them; the
\* runs that pass a negative dt are bounded by MaxFallCalls as well
MaxFallFrames == 33
MaxFallCalls == 2
\* stand-alone calls of check_collision: the objective is at most CcObjMax
\* pixels wide and high, and the target lies within CcMargin pixels around it
CcObjMax == 4
CcMargin == 3
\* the top-down variant: move is called at most MaxTopDownFrames times
MaxTopDownFrames == 3

-----------------------------------------------------------------------------
(* pygame.Rect and pygame.Vector2 *)

\* float -> int as pygame.Rect does it: truncation toward zero.
\* h is a number of half pixels, the result a number of pixels.
ToInt(h) == IF h >= 0 THEN h \div 2 ELSE -((-h) \div 2)

\* pygame.Rect(left, top, w, h) from float left/top given in half pixels
Rect(left2, top2, w, h) ==
    [left |-> ToInt(left2), top |-> ToInt(top2), width |-> w, height |-> h]

right(r) == r.left + r.width
bottom(r) == r.top + r.height

Vector2(x, y) == [x |-> x, y |-> y]

\* Block.__init__(pos, width, height) with pos = (px, py) in whole pixels:
\* Rect(pos.x - width / 2, pos.y - height / 2, width, height)
Block(px, py, w, h) == Rect(2 * px - w, 2 * py - h, w, h)

-----------------------------------------------------------------------------
(* check_collision *)

OnTop(t, o) == o.top < t.top /\ t.top <= bottom(o)
OnBottom_Strict(t, o) == o.top < bottom(t) /\ bottom(t) < bottom(o)
OnBottom(t, o) == o.top <= bottom(t) /\ bottom(t) < bottom(o)
OnLeft(t, o) == o.left < t.left /\ t.left <= right(o)
OnRight(t, o) == o.left <= right(t) /\ right(t) < right(o)

\* The ladder of lines 55-70 replaced by or-ing one flag per edge test
DirectOverlap_OrFlags(on_top, on_bottom, on_left, on_right) ==
    IF (on_top \/ on_bottom) /\ (on_left \/ on_right)
    THEN (IF on_top THEN ON_TOP ELSE 0) + (IF on_bottom THEN ON_BOTTOM ELSE 0)
         + (IF on_left THEN ON_LEFT ELSE 0) + (IF on_right THEN ON_RIGHT ELSE 0)
    ELSE -1

\* lines 55-70: the direct-overlap ladder; -1 when no branch is taken
DirectOverlap(on_top, on_bottom, on_left, on_right) ==
    IF (~on_top) /\ on_bottom /\ on_left /\ on_right THEN ON_BOTTOM
    ELSE IF on_top /\ (~on_bottom) /\ on_left /\ on_right THEN ON_TOP
    ELSE IF on_top /\ on_bottom /\ on_left /\ (~on_right) THEN ON_LEFT
    ELSE IF on_top /\ on_bottom /\ (~on_left) /\ on_right THEN ON_RIGHT
    ELSE IF (~on_top) /\ on_bottom /\ on_left /\ (~on_right) THEN ON_BOTTOM_LEFT
    ELSE IF (~on_top) /\ on_bottom /\ (~on_left) /\ on_right THEN ON_BOTTOM_RIGHT
    ELSE IF on_top /\ (~on_bottom) /\ on_left /\ (~on_right) THEN ON_TOP_LEFT
    ELSE IF on_top /\ on_bottom /\ (~on_left) /\ on_right THEN ON_TOP_RIGHT
    ELSE -1

\* SlipThrough with the left and right tests of lines 93-114 moved before
\* the bottom and top tests of lines 72-92
SlipThrough_SidesFirst(t, p, o, on_top, on_bottom, on_left, on_right) ==
    IF p.left >= right(o) /\ t.left < right(o) /\ (on_top \/ on_bottom)
    THEN (IF on_top /\ on_bottom THEN ON_LEFT
          ELSE IF on_top THEN ON_TOP_LEFT ELSE ON_BOTTOM_LEFT)
    ELSE IF right(p) <= o.left /\ right(t) > o.left /\ (on_top \/ on_bottom)
    THEN (IF on_top /\ on_bottom THEN ON_RIGHT
          ELSE IF on_top THEN ON_TOP_RIGHT ELSE ON_BOTTOM_RIGHT)
    ELSE IF bottom(p) <= o.top /\ bottom(t) > o.top /\ (on_left \/ on_right)
    THEN (IF on_left /\ on_right THEN ON_BOTTOM
          ELSE IF on_left THEN ON_BOTTOM_LEFT ELSE ON_BOTTOM_RIGHT)
    ELSE IF p.top >= bottom(o) /\ t.top < bottom(o) /\ (on_left \/ on_right)
    THEN (IF on_left /\ on_right THEN ON_TOP
          ELSE IF on_left THEN ON_TOP_LEFT ELSE ON_TOP_RIGHT)
    ELSE NONE

\* lines 72-114: the player slipped through the object between 2 frames
SlipThrough(t, p, o, on_top, on_bottom, on_left, on_right) ==
    IF bottom(p) <= o.top /\ bottom(t) > o.top /\ (on_left \/ on_right)
    THEN (IF on_left /\ on_right THEN ON_BOTTOM
          ELSE IF on_left THEN ON_BOTTOM_LEFT ELSE ON_BOTTOM_RIGHT)
    ELSE IF p.top >= bottom(o) /\ t.top < bottom(o) /\ (on_left \/ on_right)
    THEN (IF on_left /\ on_right THEN ON_TOP
          ELSE IF on_left THEN ON_TOP_LEFT ELSE ON_TOP_RIGHT)
    ELSE IF p.left >= right(o) /\ t.left < right(o) /\ (on_top \/ on_bottom)
    THEN (IF on_top /\ on_bottom THEN ON_LEFT
          ELSE IF on_top THEN ON_TOP_LEFT ELSE ON_BOTTOM_LEFT)
    ELSE IF right(p) <= o.left /\ right(t) > o.left /\ (on_top \/ on_bottom)
    THEN (IF on_top /\ on_bottom THEN ON_RIGHT
          ELSE IF on_top THEN ON_TOP_RIGHT ELSE ON_BOTTOM_RIGHT)
    ELSE NONE

check_collision(target_rect, prev_target_rect, obj_rect) ==
    LET on_top == OnTop(target_rect, obj_rect)
        on_bottom == OnBottom(target_rect, obj_rect)
        on_left == OnLeft(target_rect, obj_rect)
        on_right == OnRight(target_rect, obj_rect)
        direct == DirectOverlap(on_top, on_bottom, on_left, on_right)
    IN  IF direct # -1 THEN direct
        ELSE SlipThrough(target_rect, prev_target_rect, obj_rect,
                         on_top, on_bottom, on_left, on_right)

-----------------------------------------------------------------------------
(* Player *)

\* Player.__init__(pos): pos in half pixels
Player(p) ==
    [pos |-> p, v |-> Vector2(0, 0), on_ground |-> FALSE,
     rect |-> Rect(p.x - width, p.y - height, width, height),
     jump_key_is_holding |-> FALSE]

\* lines 164-190: velocity, on_ground and the jump latch from the polled keys.
\* keys = [w, a, d], the values of pygame.key.get_pressed() for K_w, K_a, K_d.
Jumps(self, keys) == self.on_ground /\ keys.w /\ ~self.jump_key_is_holding

\* ReadInput without line 175: the latch is never set by a jump
ReadInput_NoLatch(self, keys) ==
    IF self.on_ground
    THEN [v |-> Vector2(IF keys.a THEN -speed ELSE IF keys.d THEN speed ELSE 0,
                        IF Jumps(self, keys) THEN -jumping_speed ELSE 0),
          jump_key_is_holding |->
              IF keys.w THEN self.jump_key_is_holding ELSE FALSE]
    ELSE [v |-> Vector2(self.v.x,
                        IF self.v.y + FALLING_SPEED > MAX_SPEED THEN MAX_SPEED
                        ELSE self.v.y + FALLING_SPEED),
          jump_key_is_holding |-> self.jump_key_is_holding]

\* ReadInput with the jump of lines 169-175 moved out of "if self.on_ground"
ReadInput_AirJump(self, keys) ==
    IF self.on_ground
    THEN [v |-> Vector2(IF keys.a THEN -speed ELSE IF keys.d THEN speed ELSE 0,
                        IF Jumps(self, keys) THEN -jumping_speed ELSE 0),
          jump_key_is_holding |->
              IF keys.w THEN (IF ~self.jump_key_is_holding THEN TRUE
                              ELSE self.jump_key_is_holding)
              ELSE FALSE]
    ELSE IF keys.w /\ ~self.jump_key_is_holding
    THEN [v |-> Vector2(self.v.x, -jumping_speed), jump_key_is_holding |-> TRUE]
    ELSE [v |-> Vector2(self.v.x,
                        IF self.v.y + FALLING_SPEED > MAX_SPEED THEN MAX_SPEED
                        ELSE self.v.y + FALLING_SPEED),
          jump_key_is_holding |-> self.jump_key_is_holding]

\* ReadInput without self.v.update(0, 0) of line 166
ReadInput_NoReset(self, keys) ==
    IF self.on_ground
    THEN [v |-> Vector2(IF keys.a THEN -speed ELSE IF keys.d THEN speed
                        ELSE self.v.x,
                        IF Jumps(self, keys) THEN -jumping_speed ELSE self.v.y),
          jump_key_is_holding |->
              IF keys.w THEN (IF ~self.jump_key_is_holding THEN TRUE
                              ELSE self.jump_key_is_holding)
              ELSE FALSE]
    ELSE [v |-> Vector2(self.v.x,
                        IF self.v.y + FALLING_SPEED > MAX_SPEED THEN MAX_SPEED
                        ELSE self.v.y + FALLING_SPEED),
          jump_key_is_holding |-> self.jump_key_is_holding]

\* ReadInput without the limit of lines 188-190
ReadInput_NoClamp(self, keys) ==
    IF self.on_ground
    THEN [v |-> Vector2(IF keys.a THEN -speed ELSE IF keys.d THEN speed ELSE 0,
                        IF Jumps(self, keys) THEN -jumping_speed ELSE 0),
          jump_key_is_holding |->
              IF keys.w THEN (IF ~self.jump_key_is_holding THEN TRUE
                              ELSE self.jump_key_is_holding)
              ELSE FALSE]
    ELSE [v |-> Vector2(self.v.x, self.v.y + FALLING_SPEED),
          jump_key_is_holding |-> self.jump_key_is_holding]

\* ReadInput with the latch release of lines 176-178 done in the air too
ReadInput_AirLatch(self, keys) ==
    IF self.on_ground
    THEN [v |-> Vector2(IF keys.a THEN -speed ELSE IF keys.d THEN speed ELSE 0,
                        IF Jumps(self, keys) THEN -jumping_speed ELSE 0),
          jump_key_is_holding |->
              IF keys.w THEN (IF ~self.jump_key_is_holding THEN TRUE
                              ELSE self.jump_key_is_holding)
              ELSE FALSE]
    ELSE [v |-> Vector2(self.v.x,
                        IF self.v.y + FALLING_SPEED > MAX_SPEED THEN MAX_SPEED
                        ELSE self.v.y + FALLING_SPEED),
          jump_key_is_holding |-> keys.w /\ self.jump_key_is_holding]

\* ReadInput with the left/right keys of lines 179-183 read in the air too
ReadInput_AirControl(self, keys) ==
    IF self.on_ground
    THEN [v |-> Vector2(IF keys.a THEN -speed ELSE IF keys.d THEN speed ELSE 0,
                        IF Jumps(self, keys) THEN -jumping_speed ELSE 0),
          jump_key_is_holding |->
              IF keys.w THEN (IF ~self.jump_key_is_holding THEN TRUE
                              ELSE self.jump_key_is_holding)
              ELSE FALSE]
    ELSE [v |-> Vector2(IF keys.a THEN -speed ELSE IF keys.d THEN speed
                        ELSE self.v.x,
                        IF self.v.y + FALLING_SPEED > MAX_SPEED THEN MAX_SPEED
                        ELSE self.v.y + FALLING_SPEED),
          jump_key_is_holding |-> self.jump_key_is_holding]

ReadInput(self, keys) ==
    IF self.on_ground
    THEN [v |-> Vector2(IF keys.a THEN -speed ELSE IF keys.d THEN speed ELSE 0,
                        IF Jumps(self, keys) THEN -jumping_speed ELSE 0),
          jump_key_is_holding |->
              IF keys.w THEN (IF ~self.jump_key_is_holding THEN TRUE
                              ELSE self.jump_key_is_holding)
              ELSE FALSE]
    ELSE [v |-> Vector2(self.v.x,
                        IF self.v.y + FALLING_SPEED > MAX_SPEED THEN MAX_SPEED
                        ELSE self.v.y + FALLING_SPEED),
          jump_key_is_holding |-> self.jump_key_is_holding]

\* line 196: pos = self.pos + self.v * dt  (half pixels; dt4 quarter seconds)
TentativePos(p, vel, dt4) ==
    Vector2(p.x + (vel.x * dt4) \div 2, p.y + (vel.y * dt4) \div 2)

\* lines 197-202: the tentative collision area
TentativeRect(p, r) == Rect(p.x - width, p.y - height, r.width, r.height)

\* obj_rect.top - self.height / 2 and its three siblings, in half pixels
StopOnTop(o) == 2 * o.top - height
StopOnBottom(o) == 2 * bottom(o) + height
StopOnRight(o) == 2 * right(o) + width
StopOnLeft(o) == 2 * o.left - width

\* The four guarded assignments of lines 213-270.  st = [v, pos, on_ground].
\* LandY without the test of self.v.y
LandY_NoGuard(st, o, extra) ==
    IF extra
    THEN [st EXCEPT !.v.y = 0, !.pos.y = StopOnTop(o)] ELSE st

LandY(st, o, extra) ==
    IF st.v.y > 0 /\ extra
    THEN [st EXCEPT !.v.y = 0, !.pos.y = StopOnTop(o)] ELSE st

\* HeadY without the test of self.v.y
HeadY_NoGuard(st, o, extra) ==
    IF extra
    THEN [st EXCEPT !.v.y = 0, !.pos.y = StopOnBottom(o)] ELSE st

HeadY(st, o, extra) ==
    IF st.v.y < 0 /\ extra
    THEN [st EXCEPT !.v.y = 0, !.pos.y = StopOnBottom(o)] ELSE st

WallLeftX(st, o, extra) ==
    IF st.v.x < 0 /\ extra
    THEN [st EXCEPT !.v.x = 0, !.pos.x = StopOnRight(o)] ELSE st

WallRightX(st, o, extra) ==
    IF st.v.x > 0 /\ extra
    THEN [st EXCEPT !.v.x = 0, !.pos.x = StopOnLeft(o)] ELSE st

\* Ground with prev_rect.bottom < obj_rect.top in place of <=
Ground_Strict(st, prev_rect, o) ==
    IF bottom(prev_rect) < o.top THEN [st EXCEPT !.on_ground = TRUE] ELSE st

\* Ground without the test of prev_rect.bottom
Ground_Always(st, prev_rect, o) == [st EXCEPT !.on_ground = TRUE]

Ground(st, prev_rect, o) ==
    IF bottom(prev_rect) <= o.top THEN [st EXCEPT !.on_ground = TRUE] ELSE st

\* Limit with self.on_ground = False (line 204) moved into the loop body
Limit_ResetOnGround(st, flag, r, prev_rect, o) ==
    LET s0 == [st EXCEPT !.on_ground = FALSE]
    IN  IF flag = ON_BOTTOM THEN Ground(LandY(s0, o, TRUE), prev_rect, o)
        ELSE IF flag = ON_TOP THEN HeadY(s0, o, TRUE)
        ELSE IF flag = ON_LEFT THEN WallLeftX(s0, o, TRUE)
        ELSE IF flag = ON_RIGHT THEN WallRightX(s0, o, TRUE)
        ELSE IF flag = ON_BOTTOM_LEFT
        THEN WallLeftX(Ground(LandY(s0, o, bottom(r) >= o.top), prev_rect, o),
                       o, r.left >= right(o))
        ELSE IF flag = ON_BOTTOM_RIGHT
        THEN WallRightX(Ground(LandY(s0, o, bottom(r) >= o.top), prev_rect, o),
                        o, right(r) <= o.left)
        ELSE IF flag = ON_TOP_LEFT
        THEN WallLeftX(HeadY(s0, o, r.top <= bottom(o)), o, r.left >= right(o))
        ELSE IF flag = ON_TOP_RIGHT
        THEN WallRightX(HeadY(s0, o, r.top <= bottom(o)), o, right(r) <= o.left)
        ELSE s0

\* lines 211-270: one pass of the loop body for one objective
Limit(st, flag, r, prev_rect, o) ==
    IF flag = ON_BOTTOM THEN Ground(LandY(st, o, TRUE), prev_rect, o)
    ELSE IF flag = ON_TOP THEN HeadY(st, o, TRUE)
    ELSE IF flag = ON_LEFT THEN WallLeftX(st, o, TRUE)
    ELSE IF flag = ON_RIGHT THEN WallRightX(st, o, TRUE)
    ELSE IF flag = ON_BOTTOM_LEFT
    THEN WallLeftX(Ground(LandY(st, o, bottom(r) >= o.top), prev_rect, o),
                   o, r.left >= right(o))
    ELSE IF flag = ON_BOTTOM_RIGHT
    THEN WallRightX(Ground(LandY(st, o, bottom(r) >= o.top), prev_rect, o),
                    o, right(r) <= o.left)
    ELSE IF flag = ON_TOP_LEFT
    THEN WallLeftX(HeadY(st, o, r.top <= bottom(o)), o, r.left >= right(o))
    ELSE IF flag = ON_TOP_RIGHT
    THEN WallRightX(HeadY(st, o, r.top <= bottom(o)), o, right(r) <= o.left)
    ELSE st

\* lines 207-270: for objective in objectives, from index i on
RECURSIVE CollisionCheck(_, _, _, _, _)
CollisionCheck(st, r, prev_rect, objs, i) ==
    IF i > Len(objs) THEN st
    ELSE CollisionCheck(
             Limit(st, check_collision(r, prev_rect, objs[i]), r, prev_rect, objs[i]),
             r, prev_rect, objs, i + 1)

\* Player.move(screen, objectives, dt) with the polled keys made explicit
move(self, objs, dt4, keys) ==
    LET inp == ReadInput(self, keys)
        prev_rect == self.rect
        p == TentativePos(self.pos, inp.v, dt4)
        r == TentativeRect(p, self.rect)
        st == CollisionCheck([v |-> inp.v, pos |-> p, on_ground |-> FALSE],
                             r, prev_rect, objs, 1)
    IN  [pos |-> st.pos, v |-> st.v, on_ground |-> st.on_ground,
         rect |-> [self.rect EXCEPT !.left = ToInt(st.pos.x - width),
                                    !.top = ToInt(st.pos.y - height)],
         jump_key_is_holding |-> inp.jump_key_is_holding]

-----------------------------------------------------------------------------
(* The worlds a run starts from: a platform list and the Player's position *)

\* main(): ceiling, floor, left wall and right wall around an sw x sh screen
Walls(sw, sh) ==
    << Block(sw \div 2, -5, sw, 10),
       Block(sw \div 2, sh + 5, sw, 10),
       Block(-5, sh \div 2, 10, sh),
       Block(sw + 5, sh \div 2, 10, sh) >>

\* A 240 x 60 room with an 80 x 50 block standing on its floor
Room == Walls(240, 60) \o << Block(40, 35, 80, 50) >>

\* One floor, top 140, from x = 0 to x = 200, 10 thick
Floor == << Block(100, 145, 200, 10) >>

\* Two platforms side by side, the first 10 lower than the second
Steps == << Block(50, 145, 100, 10), Block(150, 135, 100, 10) >>

\* The floor with a thin roof, bottom -15, 115 above a standing player's head
Roof == Floor \o << Block(100, -20, 200, 10) >>

\* A platform (x 115..215, top 100) and, left of it across a gap, a low
\* wall (x 0..70, top 105)
Ledge == << Block(165, 105, 100, 10), Block(35, 130, 70, 50) >>

\* The floor with a wall (x 0..50, y 90..140) standing on its left end
Corner == Floor \o << Block(25, 115, 50, 50) >>

Worlds ==
    { [objectives |-> Room, pos |-> Vector2(240, 80)],
      [objectives |-> Floor, pos |-> Vector2(200, 200)],
      [objectives |-> Floor, pos |-> Vector2(200, 240)],
      [objectives |-> Steps, pos |-> Vector2(200, 220)],
      [objectives |-> Roof, pos |-> Vector2(200, 240)],
      [objectives |-> Ledge, pos |-> Vector2(280, 160)],
      [objectives |-> Corner, pos |-> Vector2(140, 200)] }

Keys == [w : BOOLEAN, a : BOOLEAN, d : BOOLEAN]
NoKeys == [w |-> FALSE, a |-> FALSE, d |-> FALSE]
Dts == {0, 1} \cup (4 .. MaxDt4)

\* The Player object as a record, and back
Self == [pos |-> pos, v |-> v, on_ground |-> on_ground, rect |-> rect,
         jump_key_is_holding |-> jump_key_is_holding]

NoRect == [left |-> 0, top |-> 0, width |-> 0, height |-> 0]
NoCall == [dt |-> 0, keys |-> NoKeys, w_before |-> FALSE,
           pre |-> Player(Vector2(0, 0)),
           v0 |-> Vector2(0, 0), trect |-> NoRect, jumped |-> FALSE,
           flags |-> << >>]
NoCc == [target |-> NoRect, prev |-> NoRect, obj |-> NoRect]

Init ==
    /\ \E wd \in Worlds :
          /\ objectives = wd.objectives
          /\ pos = Player(wd.pos).pos
          /\ v = Player(wd.pos).v
          /\ on_ground = Player(wd.pos).on_ground
          /\ rect = Player(wd.pos).rect
          /\ jump_key_is_holding = Player(wd.pos).jump_key_is_holding
    /\ last = NoCall
    /\ prev_w = FALSE
    /\ hold_jumps = 0
    /\ frame = 0
    /\ cc_in = NoCc
    /\ cc_out = -1
    /\ jumping = FALSE

\* History: the call assigned self.v.y = -self.jumping_speed (line 172).  vel is
\* the velocity after lines 164-190; gravity alone never yields that value,
\* because it only adds to a v.y that is at least -jumping_speed.
JumpImpulse(self, vel) ==
    vel.y = 0 - jumping_speed /\ vel.y # self.v.y + FALLING_SPEED

\* One frame of the main loop: poll the keys, call player.move(screen, platforms, dt),
\* with dt drawn from dts, the keys from keyset, and at most maxf calls in a run
Frame(dts, keyset, maxf) ==
    /\ frame < maxf
    /\ \E dt4 \in dts, keys \in keyset :
          LET new == move(Self, objectives, dt4, keys)
              inp == ReadInput(Self, keys)
              tr == TentativeRect(TentativePos(pos, inp.v, dt4), rect)
          IN  /\ pos' = new.pos
              /\ v' = new.v
              /\ on_ground' = new.on_ground
              /\ rect' = new.rect
              /\ jump_key_is_holding' = new.jump_key_is_holding
              /\ last' = [dt |-> dt4, keys |-> keys, w_before |-> prev_w,
                          pre |-> Self, v0 |-> inp.v, trect |-> tr,
                          jumped |-> JumpImpulse(Self, inp.v),
                          flags |-> [i \in 1 .. Len(objectives) |->
                                        check_collision(tr, rect, objectives[i])]]
              /\ prev_w' = keys.w
              /\ hold_jumps' = IF ~keys.w THEN 0
                               ELSE (IF prev_w THEN hold_jumps ELSE 0)
                                    + (IF JumpImpulse(Self, inp.v) THEN 1 ELSE 0)
    /\ frame' = frame + 1
    /\ UNCHANGED <<objectives, cc_in, cc_out, jumping>>

Move == Frame(Dts, Keys, MaxFrames)

Next == Move

Spec == Init /\ [][Next]_vars

-----------------------------------------------------------------------------
(* A long fall.  Above the floor, Player((100,100)) called with dt = 0 stays *)
(* where it is and gains FALLING_SPEED per call up to MAX_SPEED; the run     *)
(* starts after k such calls, k <= MaxFallFrames.                            *)

Min(a, b) == IF a < b THEN a ELSE b

FallSpeeds == { Min(k * FALLING_SPEED, MAX_SPEED) : k \in 0 .. MaxFallFrames }
FallKeys == { k \in Keys : ~k.a /\ ~k.d }

InitFall ==
    /\ objectives = Floor
    /\ pos = Player(Vector2(200, 200)).pos
    /\ v \in { Vector2(0, vy) : vy \in FallSpeeds }
    /\ on_ground = Player(Vector2(200, 200)).on_ground
    /\ rect = Player(Vector2(200, 200)).rect
    /\ jump_key_is_holding = Player(Vector2(200, 200)).jump_key_is_holding
    /\ last = NoCall
    /\ prev_w = FALSE
    /\ hold_jumps = 0
    /\ frame = 0
    /\ cc_in = NoCc
    /\ cc_out = -1
    /\ jumping = FALSE

Fall == Frame(Dts, FallKeys, MaxFallCalls)

NextFall == Fall

SpecFall == InitFall /\ [][NextFall]_vars

-----------------------------------------------------------------------------
(* Player.move called directly, with a dt that may be negative (a quarter   *)
(* second back); main's clock never yields one.                             *)

AnyDts == Dts \cup {0 - 1}

MoveAnyDt == Frame(AnyDts, FallKeys, MaxFallCalls)

NextAnyDt == MoveAnyDt

SpecAnyDt == Init /\ [][NextAnyDt]_vars

-----------------------------------------------------------------------------
(* A world all of whose platforms are at least as wide and as high as the   *)
(* Player: a floor 40 thick (top 140) and a wall (x 0..50, y 90..140) whose *)
(* bottom is level with the floor's top.  The Player starts in the air,     *)
(* clear of both.                                                           *)

Solid == << Block(100, 160, 200, 40), Block(25, 115, 50, 50) >>

\* platforms objs and a Player just constructed at p (half pixels)
InitAt(objs, p) ==
    /\ objectives = objs
    /\ pos = Player(p).pos
    /\ v = Player(p).v
    /\ on_ground = Player(p).on_ground
    /\ rect = Player(p).rect
    /\ jump_key_is_holding = Player(p).jump_key_is_holding
    /\ last = NoCall
    /\ prev_w = FALSE
    /\ hold_jumps = 0
    /\ frame = 0
    /\ cc_in = NoCc
    /\ cc_out = -1
    /\ jumping = FALSE

InitSolid == InitAt(Solid, Vector2(200, 200))

MoveSolid == Frame(Dts, Keys, MaxFallCalls)

NextSolid == MoveSolid

SpecSolid == InitSolid /\ [][NextSolid]_vars

\* The floor (top 140), a wall block on its left end (x 0..50, y 90..140)
\* and behind it a pillar of the same width that reaches below the floor's
\* top (x 0..50, y 40..190).
Stacked == Floor \o << Block(25, 115, 50, 50), Block(25, 115, 50, 150) >>

InitStacked == InitAt(Stacked, Vector2(200, 200))

MoveStacked == Frame(Dts, Keys, MaxFallCalls)

NextStacked == MoveStacked

SpecStacked == InitStacked /\ [][NextStacked]_vars

\* Worlds in which the order of the platforms list can matter: the Player
\* above the seam of the two Steps, and the Player beside the wall and the
\* pillar, its left edge on their right edge
InitOrder ==
    \/ InitAt(Steps, Vector2(200, 220))
    \/ InitAt(Stacked, Vector2(140, 200))

MoveOrder == Frame(Dts, Keys, MaxFallCalls)

NextOrder == MoveOrder

SpecOrder == InitOrder /\ [][NextOrder]_vars

-----------------------------------------------------------------------------
(* A fall onto the floor in which every frame takes time: the long fall of  *)
(* InitFall continued with dt >= 1/4 s and no key held.  The loop of main   *)
(* runs on, so a frame is always taken while one is left.                   *)

PosDts == Dts \ {0}

Land == Frame(PosDts, {NoKeys}, MaxFrames)

NextLand == Land

SpecLand == InitFall /\ [][NextLand]_vars /\ WF_vars(NextLand)

-----------------------------------------------------------------------------
(* The top-down variant, snippets/collision.py: Player.__init__,            *)
(* Player.check_collision, Player.move, Block.__init__.                     *)
(*                                                                          *)
(* Units.  A diagonal move has the speed 200 / sqrt(2) on each axis, and    *)
(* whether a coordinate is truncated to one pixel or the next depends on    *)
(* the rounding of the float additions, so Vector2 coordinates of this      *)
(* section are IEEE doubles, held exactly.  Every double the program        *)
(* computes here is a multiple of 2^-47 (whole and half pixels, v * dt with *)
(* dt a number of quarter seconds, and their sums, all below 4096), so the  *)
(* double x is the integer N = x * 2^47, written in two limbs:              *)
(* N = hi * 2^28 + lo with 0 <= lo < 2^28.  v is held the same way, in      *)
(* pixels per second.  Rect fields are whole pixels and dt is a number of   *)
(* quarter seconds as before.  speed, width and height have the values of   *)
(* the platformer's Player.  The variables on_ground, jump_key_is_holding,  *)
(* prev_w, hold_jumps, cc_in, cc_out and jumping are not used by this       *)
(* program and keep their initial values.                                   *)

\* 2^28, the base of the low limb
Lo == 268435456

\* 2^19, the value of hi for one pixel
Px == 524288

Double(h, l) == [hi |-> h, lo |-> l]

\* float(n) of an int n, and n / 2
FromInt(n) == Double(n * Px, 0)
Half(n) == Double((n * Px) \div 2, 0)

\* carry of the low limb into the high one
Norm(h, l) == Double(h + (l \div Lo), l % Lo)

\* -a
Neg(a) == IF a.lo = 0 THEN Double(-a.hi, 0) ELSE Double(-a.hi - 1, Lo - a.lo)

\* The number of bits of N below the last place of a double of the
\* magnitude of a >= 0: a double in [2^e, 2^(e+1)) has its last place at
\* 2^(e-52), which is 2^(e-5) units of N.
DropBits(a) ==
    LET n == a.hi \div Px
    IN  IF n < 64 THEN 0 ELSE IF n < 128 THEN 1 ELSE IF n < 256 THEN 2
        ELSE IF n < 512 THEN 3 ELSE IF n < 1024 THEN 4
        ELSE IF n < 2048 THEN 5 ELSE 6

\* Round to nearest, ties to even, of an exact result a >= 0
RoundAbs(a) ==
    LET unit == 2 ^ DropBits(a)
        q == a.lo \div unit
        r == a.lo % unit
        up == (2 * r > unit) \/ (2 * r = unit /\ q % 2 = 1)
    IN  Norm(a.hi, (q + (IF up THEN 1 ELSE 0)) * unit)

\* Round to nearest, ties to even, of an exact result of either sign
Round(a) == IF a.hi < 0 THEN Neg(RoundAbs(Neg(a))) ELSE RoundAbs(a)

\* float a + b and a - b
Add(a, b) == Round(Norm(a.hi + b.hi, a.lo + b.lo))
Sub(a, b) == Add(a, Neg(b))

\* The exact product a * dt4 / 4 of a >= 0 whose N is a multiple of 4
QuarterTimes(a, dt4) ==
    LET p == Norm(a.hi * dt4, a.lo * dt4)
    IN  Double(p.hi \div 4, (p.hi % 4) * (Lo \div 4) + p.lo \div 4)

\* float a * dt, dt = dt4 / 4
TimesDt(a, dt4) ==
    IF a.hi < 0 THEN Neg(RoundAbs(QuarterTimes(Neg(a), dt4)))
    ELSE RoundAbs(QuarterTimes(a, dt4))

\* Vector2(1, 1).clamp_magnitude(1) * speed, per axis: the double
\* 141.42135623730948 = 0x1.1ad7bc01366b7p+7
DiagSpeed == Double(74145520, 5085916)

\* float -> int as pygame.Rect does it: truncation toward zero
FloatToInt(a) == IF a.hi < 0 THEN -(Neg(a).hi \div Px) ELSE a.hi \div Px

\* pygame.Rect(left, top, w, h) from float left and top
FloatRect(leftf, topf, w, h) ==
    [left |-> FloatToInt(leftf), top |-> FloatToInt(topf),
     width |-> w, height |-> h]

HalfWidth == Half(width)
HalfHeight == Half(height)

\* collision.py Player.__init__(pos)
collision_Player(p) ==
    [pos |-> p, v |-> Vector2(FromInt(0), FromInt(0)),
     rect |-> FloatRect(Sub(p.x, HalfWidth), Sub(p.y, HalfHeight),
                        width, height)]

\* collision.py Block.__init__(pos, width, height), pos in whole pixels
collision_Block(px, py, w, h) ==
    FloatRect(Sub(FromInt(px), Half(w)), Sub(FromInt(py), Half(h)), w, h)

\* collision.py Player.check_collision(rect, obj), lines 56-61
collision_check_collision(r, obj) ==
    [on_top |-> obj.top < r.top /\ r.top <= bottom(obj),
     on_bottom |-> obj.top <= bottom(r) /\ bottom(r) < bottom(obj),
     on_left |-> obj.left < r.left /\ r.left <= right(obj),
     on_right |-> obj.left <= right(r) /\ right(r) < right(obj)]

\* d * a for a direction d of -1, 0 or 1
Directed(d, a) == IF d < 0 THEN Neg(a) ELSE IF d > 0 THEN a ELSE FromInt(0)

\* lines 71-89: the velocity from the keys, normalised and scaled by speed
Velocity(keys) ==
    LET dx == IF keys.a THEN -1 ELSE IF keys.d THEN 1 ELSE 0
        dy == IF keys.w THEN -1 ELSE IF keys.s THEN 1 ELSE 0
    IN  IF dx # 0 /\ dy # 0
        THEN Vector2(Directed(dx, DiagSpeed), Directed(dy, DiagSpeed))
        ELSE Vector2(Directed(dx, FromInt(speed)), Directed(dy, FromInt(speed)))

\* self.v.y = 0; pos.y = y  and  self.v.x = 0; pos.x = x
StopY(st, y) == [st EXCEPT !.v.y = FromInt(0), !.pos.y = y]
StopX(st, x) == [st EXCEPT !.v.x = FromInt(0), !.pos.x = x]

\* The four stop positions of lines 113-165
BelowOf(obj) == Add(FromInt(bottom(obj)), HalfHeight)
AboveOf(obj) == Sub(FromInt(obj.top), HalfHeight)
RightOf(obj) == Add(FromInt(right(obj)), HalfWidth)
LeftOf(obj) == Sub(FromInt(obj.left), HalfWidth)

\* One corner branch (lines 126-135 and its three siblings): the y axis is
\* stopped when ytest and yedge hold, then the x axis when xtest and xedge
\* hold; all four are tests of self.rect, the box of the previous frame.
CornerStop(st, ytest, yedge, y, xtest, xedge, x) ==
    LET s1 == IF ytest /\ yedge THEN StopY(st, y) ELSE st
    IN  IF xtest /\ xedge THEN StopX(s1, x) ELSE s1

\* lines 102-165: the loop body for one platform.  st = [v, pos], self_rect
\* is self.rect, r the tentative collision area, obj the platform's rect.
collision_Limit(st, self_rect, r, obj) ==
    LET c == collision_check_collision(r, obj)
        in_obj_width == c.on_left /\ c.on_right
        in_obj_height == c.on_top /\ c.on_bottom
    IN  IF ~((c.on_top \/ c.on_bottom) /\ (c.on_left \/ c.on_right)) THEN st
        ELSE IF c.on_top /\ in_obj_width THEN StopY(st, BelowOf(obj))
        ELSE IF c.on_bottom /\ in_obj_width THEN StopY(st, AboveOf(obj))
        ELSE IF c.on_left /\ in_obj_height THEN StopX(st, RightOf(obj))
        ELSE IF c.on_right /\ in_obj_height THEN StopX(st, LeftOf(obj))
        ELSE IF c.on_top /\ c.on_left
        THEN CornerStop(st, self_rect.top >= bottom(obj),
                        self_rect.left # right(obj), BelowOf(obj),
                        self_rect.left >= right(obj),
                        self_rect.top # bottom(obj), RightOf(obj))
        ELSE IF c.on_top /\ c.on_right
        THEN CornerStop(st, self_rect.top >= bottom(obj),
                        right(self_rect) # obj.left, BelowOf(obj),
                        right(self_rect) <= obj.left,
                        self_rect.top # bottom(obj), LeftOf(obj))
        ELSE IF c.on_bottom /\ c.on_left
        THEN CornerStop(st, bottom(self_rect) <= obj.top,
                        self_rect.left # right(obj), AboveOf(obj),
                        self_rect.left >= right(obj),
                        bottom(self_rect) # obj.top, RightOf(obj))
        ELSE IF c.on_bottom /\ c.on_right
        THEN CornerStop(st, bottom(self_rect) <= obj.top,
                        right(self_rect) # obj.left, AboveOf(obj),
                        right(self_rect) <= obj.left,
                        bottom(self_rect) # obj.top, LeftOf(obj))
        ELSE st

\* lines 101-165: for platform in platforms, from index i on
RECURSIVE collision_CollisionCheck(_, _, _, _, _)
collision_CollisionCheck(st, self_rect, r, platforms, i) ==
    IF i > Len(platforms) THEN st
    ELSE collision_CollisionCheck(
             collision_Limit(st, self_rect, r, platforms[i]),
             self_rect, r, platforms, i + 1)

\* line 92: pos = self.pos + self.v * dt
collision_TentativePos(p, vel, dt4) ==
    Vector2(Add(p.x, TimesDt(vel.x, dt4)), Add(p.y, TimesDt(vel.y, dt4)))

\* lines 93-98: the tentative collision area
collision_TentativeRect(p, r) ==
    FloatRect(Sub(p.x, HalfWidth), Sub(p.y, HalfHeight), r.width, r.height)

\* collision.py Player.move(screen, platforms, dt) with the polled keys
\* made explicit
collision_move(self, platforms, dt4, keys) ==
    LET v0 == Velocity(keys)
        p == collision_TentativePos(self.pos, v0, dt4)
        r == collision_TentativeRect(p, self.rect)
        st == collision_CollisionCheck([v |-> v0, pos |-> p], self.rect, r,
                                       platforms, 1)
    IN  [pos |-> st.pos, v |-> st.v,
         rect |-> [self.rect EXCEPT
                       !.left = FloatToInt(Sub(st.pos.x, HalfWidth)),
                       !.top = FloatToInt(Sub(st.pos.y, HalfHeight))]]

\* Two blocks at least as large as the Player, 80 apart: x 0..60 and
\* x 140..200, both y 0..60
TopDownBlocks ==
    << collision_Block(30, 30, 60, 60), collision_Block(170, 30, 60, 60) >>

\* Where the Player is constructed: below the blocks, strictly diagonal to
\* the first block's lower right corner (100, 100), level with its right
\* side (80, 100), or with its corner on that corner (80, 80)
TopDownStarts ==
    { Vector2(FromInt(100), FromInt(100)), Vector2(FromInt(80), FromInt(100)),
      Vector2(FromInt(80), FromInt(80)) }

TopDownKeys == [w : BOOLEAN, s : BOOLEAN, a : BOOLEAN, d : BOOLEAN]
NoTopDownKeys == [w |-> FALSE, s |-> FALSE, a |-> FALSE, d |-> FALSE]

TopDownSelf == [pos |-> pos, v |-> v, rect |-> rect]

\* History of the top-down runs: the last call of move
NoTopDownCall ==
    [dt |-> 0, keys |-> NoTopDownKeys,
     pre |-> collision_Player(Vector2(FromInt(0), FromInt(0))),
     v0 |-> Vector2(FromInt(0), FromInt(0)), trect |-> NoRect]

InitTopDown ==
    /\ objectives = TopDownBlocks
    /\ \E p \in TopDownStarts :
          /\ pos = collision_Player(p).pos
          /\ v = collision_Player(p).v
          /\ rect = collision_Player(p).rect
    /\ on_ground = FALSE
    /\ jump_key_is_holding = FALSE
    /\ last = NoTopDownCall
    /\ prev_w = FALSE
    /\ hold_jumps = 0
    /\ frame = 0
    /\ cc_in = NoCc
    /\ cc_out = -1
    /\ jumping = FALSE

\* One frame of collision.py's main loop: player.move(screen, blocks, dt)
MoveTopDown ==
    /\ frame < MaxTopDownFrames
    /\ \E dt4 \in Dts, keys \in TopDownKeys :
          LET new == collision_move(TopDownSelf, objectives, dt4, keys)
              v0 == Velocity(keys)
          IN  /\ pos' = new.pos
              /\ v' = new.v
              /\ rect' = new.rect
              /\ last' = [dt |-> dt4, keys |-> keys, pre |-> TopDownSelf,
                          v0 |-> v0,
                          trect |-> collision_TentativeRect(
                                        collision_TentativePos(pos, v0, dt4),
                                        rect)]
    /\ frame' = frame + 1
    /\ UNCHANGED <<objectives, on_ground, jump_key_is_holding, prev_w,
                   hold_jumps, cc_in, cc_out, jumping>>

NextTopDown == MoveTopDown

SpecTopDown == InitTopDown /\ [][NextTopDown]_vars

-----------------------------------------------------------------------------
(* The earlier platformer, snippets/platform_stage.py: Player.__init__,     *)
(* Player.check_collision, Player.move.  Units are those of the first       *)
(* section: pos in half pixels, v in pixels per second, dt in quarter       *)
(* seconds; Block, speed, width and height are the same in both programs,   *)
(* and so are the tentative position and box (TentativePos, TentativeRect)  *)
(* and the stop positions (StopOnTop and its siblings).  The fall           *)
(* acceleration 20 and the speeds 650 are literals in this program and have *)
(* the values of FALLING_SPEED, MAX_SPEED and jumping_speed.  Of the        *)
(* variables, this program uses objectives, pos, v, rect and jumping, and   *)
(* the history in last, prev_w, hold_jumps and frame.                       *)

\* platform_stage.py Player.__init__(pos), pos in half pixels
stage_Player(p) ==
    [pos |-> p, v |-> Vector2(0, 0), jumping |-> TRUE,
     rect |-> Rect(p.x - width, p.y - height, width, height)]

\* platform_stage.py Player.check_collision(rect, obj), lines 57-63
stage_check_collision(r, obj) ==
    [on_top |-> obj.top < r.top /\ r.top <= bottom(obj),
     on_bottom |-> obj.top <= bottom(r) /\ bottom(r) < bottom(obj),
     on_left |-> obj.left < r.left /\ r.left <= right(obj),
     on_right |-> obj.left <= right(r) /\ right(r) < right(obj)]

\* lines 73-90: free fall while jumping, else the velocity from the keys
stage_ReadInput(self, keys) ==
    IF self.jumping
    THEN Vector2(self.v.x,
                 IF self.v.y + FALLING_SPEED > MAX_SPEED THEN MAX_SPEED
                 ELSE self.v.y + FALLING_SPEED)
    ELSE Vector2(IF keys.a THEN -speed ELSE IF keys.d THEN speed ELSE 0,
                 IF keys.w THEN -jumping_speed ELSE 0)

\* The guarded assignments of lines 113-190.  st = [v, pos, jumping].
\* if self.v.y < 0: pos.y = ...; self.v.y = 0   (and its three siblings)
stage_HeadY(st, obj) ==
    [st EXCEPT !.pos.y = IF st.v.y < 0 THEN StopOnBottom(obj) ELSE @, !.v.y = 0]

stage_LandY(st, obj) ==
    [st EXCEPT !.pos.y = IF st.v.y > 0 THEN StopOnTop(obj) ELSE @, !.v.y = 0]

stage_WallLeftX(st, obj) ==
    [st EXCEPT !.pos.x = IF st.v.x < 0 THEN StopOnRight(obj) ELSE @, !.v.x = 0]

stage_WallRightX(st, obj) ==
    [st EXCEPT !.pos.x = IF st.v.x > 0 THEN StopOnLeft(obj) ELSE @, !.v.x = 0]

\* if self.jumping: self.jumping = False
stage_Landed(st) == [st EXCEPT !.jumping = FALSE]

\* lines 105-190: the loop body for one platform; self_rect is self.rect,
\* r the tentative collision area, obj the platform's rect
stage_Limit(st, self_rect, r, obj) ==
    LET c == stage_check_collision(r, obj)
        between_obj_width == c.on_left /\ c.on_right
        between_obj_height == c.on_top /\ c.on_bottom
    IN  IF ~((c.on_top \/ c.on_bottom) /\ (c.on_left \/ c.on_right)) THEN st
        ELSE IF c.on_top /\ between_obj_width THEN stage_HeadY(st, obj)
        ELSE IF c.on_bottom /\ between_obj_width
        THEN stage_Landed(stage_LandY(st, obj))
        ELSE IF c.on_left /\ between_obj_height THEN stage_WallLeftX(st, obj)
        ELSE IF c.on_right /\ between_obj_height THEN stage_WallRightX(st, obj)
        ELSE IF c.on_top /\ c.on_left
        THEN LET s1 == IF self_rect.top >= bottom(obj)
                          /\ self_rect.left # right(obj)
                       THEN stage_HeadY(st, obj) ELSE st
             IN  IF self_rect.left >= right(obj) /\ self_rect.top # bottom(obj)
                 THEN stage_WallLeftX(s1, obj) ELSE s1
        ELSE IF c.on_top /\ c.on_right
        THEN LET s1 == IF self_rect.top >= bottom(obj)
                          /\ right(self_rect) # obj.left
                       THEN stage_HeadY(st, obj) ELSE st
             IN  IF right(self_rect) <= obj.left /\ self_rect.top # bottom(obj)
                 THEN stage_WallRightX(s1, obj) ELSE s1
        ELSE IF c.on_bottom /\ c.on_left
        THEN LET s1 == IF bottom(self_rect) <= obj.top
                       THEN stage_Landed(IF self_rect.left # right(obj)
                                         THEN stage_LandY(st, obj) ELSE st)
                       ELSE st
             IN  IF self_rect.left >= right(obj) /\ bottom(self_rect) # obj.top
                 THEN stage_WallLeftX(s1, obj) ELSE s1
        ELSE IF c.on_bottom /\ c.on_right
        THEN LET s1 == IF bottom(self_rect) <= obj.top
                       THEN stage_Landed(IF right(self_rect) # obj.left
                                         THEN stage_LandY(st, obj) ELSE st)
                       ELSE st
             IN  IF right(self_rect) <= obj.left /\ bottom(self_rect) # obj.top
                 THEN stage_WallRightX(s1, obj) ELSE s1
        ELSE st

\* lines 105-190: for platform in platforms, from index i on
RECURSIVE stage_CollisionCheck(_, _, _, _, _)
stage_CollisionCheck(st, self_rect, r, platforms, i) ==
    IF i > Len(platforms) THEN st
    ELSE stage_CollisionCheck(stage_Limit(st, self_rect, r, platforms[i]),
                              self_rect, r, platforms, i + 1)

\* platform_stage.py Player.move(screen, platforms, dt) with the polled
\* keys made explicit
stage_move(self, platforms, dt4, keys) ==
    LET v0 == stage_ReadInput(self, keys)
        p == TentativePos(self.pos, v0, dt4)
        r == TentativeRect(p, self.rect)
        st == stage_CollisionCheck([v |-> v0, pos |-> p, jumping |-> TRUE],
                                   self.rect, r, platforms, 1)
    IN  [pos |-> st.pos, v |-> st.v, jumping |-> st.jumping,
         rect |-> [self.rect EXCEPT !.left = ToInt(st.pos.x - width),
                                    !.top = ToInt(st.pos.y - height)]]

StageSelf == [pos |-> pos, v |-> v, jumping |-> jumping, rect |-> rect]

\* History: the call assigned self.v.y = -650 (line 86)
StageJumped(self, keys) == ~self.jumping /\ keys.w

NoStageCall ==
    [dt |-> 0, keys |-> NoKeys, pre |-> stage_Player(Vector2(0, 0)),
     v0 |-> Vector2(0, 0), jumped |-> FALSE]

\* The Floor under a thick ceiling (y -105..95), 5 above the head of a
\* Player that stands on the floor
LowRoom == Floor \o << Block(100, -5, 200, 200) >>

\* As in main, the Player is constructed with its box standing on the
\* floor (bottom = floor top = 140); the platforms are the Floor, with or
\* without the ceiling.
InitStage ==
    /\ objectives \in {Floor, LowRoom}
    /\ pos = stage_Player(Vector2(200, 240)).pos
    /\ v = stage_Player(Vector2(200, 240)).v
    /\ rect = stage_Player(Vector2(200, 240)).rect
    /\ jumping = stage_Player(Vector2(200, 240)).jumping
    /\ on_ground = FALSE
    /\ jump_key_is_holding = FALSE
    /\ last = NoStageCall
    /\ prev_w = FALSE
    /\ hold_jumps = 0
    /\ frame = 0
    /\ cc_in = NoCc
    /\ cc_out = -1

\* One frame of platform_stage.py's main loop:
\* player.move(screen, platforms, dt)
MoveStage ==
    /\ frame < MaxFrames
    /\ \E dt4 \in Dts, keys \in Keys :
          LET new == stage_move(StageSelf, objectives, dt4, keys)
          IN  /\ pos' = new.pos
              /\ v' = new.v
              /\ rect' = new.rect
              /\ jumping' = new.jumping
              /\ last' = [dt |-> dt4, keys |-> keys, pre |-> StageSelf,
                          v0 |-> stage_ReadInput(StageSelf, keys),
                          jumped |-> StageJumped(StageSelf, keys)]
              /\ prev_w' = keys.w
              /\ hold_jumps' = IF ~keys.w THEN 0
                               ELSE (IF prev_w THEN hold_jumps ELSE 0)
                                    + (IF StageJumped(StageSelf, keys)
                                       THEN 1 ELSE 0)
    /\ frame' = frame + 1
    /\ UNCHANGED <<objectives, on_ground, jump_key_is_holding, cc_in, cc_out>>

NextStage == MoveStage

SpecStage == InitStage /\ [][NextStage]_vars

-----------------------------------------------------------------------------
(* check_collision on its own, over a bounded set of rectangles *)

CcCoords == (0 - CcMargin) .. (CcObjMax + CcMargin)
CcSizes == {0, 1, 2, CcObjMax}
CcTargets == { [left |-> x, top |-> y, width |-> 2, height |-> 2] :
                 x \in CcCoords, y \in CcCoords }
CcObjs == { [left |-> 0, top |-> 0, width |-> ow, height |-> oh] :
              ow \in CcSizes, oh \in CcSizes }

InitCc ==
    /\ objectives = << >>
    /\ pos = Vector2(0, 0)
    /\ v = Vector2(0, 0)
    /\ on_ground = FALSE
    /\ rect = NoRect
    /\ jump_key_is_holding = FALSE
    /\ last = NoCall
    /\ prev_w = FALSE
    /\ hold_jumps = 0
    /\ frame = 0
    /\ cc_in \in [target : CcTargets, prev : CcTargets, obj : CcObjs]
    /\ cc_out = -1
    /\ jumping = FALSE

Classify ==
    /\ cc_out = -1
    /\ jumping = FALSE
    /\ cc_out' = check_collision(cc_in.target, cc_in.prev, cc_in.obj)
    /\ UNCHANGED <<objectives, pos, v, on_ground, jump_key_is_holding, rect,
                   last, prev_w, hold_jumps, frame, cc_in, jumping>>

NextCc == Classify

SpecCc == InitCc /\ [][NextCc]_vars

-----------------------------------------------------------------------------
(* Properties.  They speak about the last call of move through the history  *)
(* record: last.pre is the Player before the call, last.v0 the velocity     *)
(* after lines 164-190, last.trect the tentative collision area, last.flags *)
(* the classifier's answer for each objective.                              *)

Called == frame > 0
Objs == 1 .. Len(objectives)

\* two rectangles share a horizontal (vertical) stretch of positive length
OverlapX(t, o) == t.left < right(o) /\ right(t) > o.left
OverlapY(t, o) == t.top < bottom(o) /\ bottom(t) > o.top

\* C1 (landing): a call that starts airborne with downward pre-collision
\* velocity, whose previous box is at or above a platform's top, whose
\* tentative box reaches or passes that top and overlaps the platform
\* horizontally, ends on_ground with v.y = 0 and pos.y = top - half height.
C1_Landing ==
    Called =>
        \A i \in Objs :
            ( /\ ~last.pre.on_ground
              /\ last.v0.y > 0
              /\ bottom(last.pre.rect) <= objectives[i].top
              /\ bottom(last.trect) >= objectives[i].top
              /\ OverlapX(last.trect, objectives[i]) )
            => ( /\ on_ground
                 /\ v.y = 0
                 /\ pos.y = StopOnTop(objectives[i]) )

\* C2 (side wall): a call that moves left (pre-collision v.x < 0), whose
\* previous box is entirely right of a wall and whose tentative box has its
\* left edge inside the wall's horizontal span while overlapping the wall
\* vertically, ends with v.x = 0 and pos.x = wall.right + half width.
C2_SideWall ==
    Called =>
        \A i \in Objs :
            ( /\ last.v0.x < 0
              /\ last.pre.rect.left >= right(objectives[i])
              /\ objectives[i].left < last.trect.left
              /\ last.trect.left < right(objectives[i])
              /\ OverlapY(last.trect, objectives[i]) )
            => ( /\ v.x = 0
                 /\ pos.x = StopOnRight(objectives[i]) )

\* C3 (tunneling): with a single platform, whenever the box's bottom crosses
\* the platform's top in one call (prev.bottom <= top < tentative bottom) and
\* the tentative box is horizontally within the platform (on_left and
\* on_right), the call ends on_ground with v.y = 0, pos.y = top - half height
\* and the box not below the platform's top.
C3_Tunneling ==
    (Called /\ Len(objectives) = 1) =>
        ( ( /\ bottom(last.pre.rect) <= objectives[1].top
            /\ objectives[1].top < bottom(last.trect)
            /\ OnLeft(last.trect, objectives[1])
            /\ OnRight(last.trect, objectives[1]) )
          => ( /\ on_ground
               /\ v.y = 0
               /\ pos.y = StopOnTop(objectives[1])
               /\ bottom(rect) <= objectives[1].top ) )

\* C4 (resting contact is a fixed point): a call with no key held, made when
\* the box's bottom equals an obstacle's top, the box overlaps the obstacle
\* horizontally and v = (0,0), leaves pos and v unchanged and ends on_ground,
\* whatever on_ground was before and whatever dt is.  (The state after the
\* call is again such a state, so this covers any number of calls.)
C4_RestingFixedPoint ==
    Called =>
        \A i \in Objs :
            ( /\ bottom(last.pre.rect) = objectives[i].top
              /\ OverlapX(last.pre.rect, objectives[i])
              /\ last.pre.v = Vector2(0, 0)
              /\ last.keys = NoKeys )
            => ( /\ pos = last.pre.pos
                 /\ v = last.pre.v
                 /\ on_ground )

\* C5 (no retrigger while held): during one unbroken hold of the jump key
\* the jump impulse is applied at most once.
C5_JumpOncePerHold == hold_jumps <= 1

\* C5 witness: the key has been held since a jump, the player has come to
\* rest on the ground again, and the call made there did not jump.
C5_HeldOnGroundAfterJump ==
    /\ Called
    /\ last.pre.on_ground /\ last.pre.v.y = 0
    /\ last.keys.w /\ last.w_before
    /\ last.pre.jump_key_is_holding
    /\ hold_jumps = 1
    /\ ~last.jumped

\* C6 (a jump makes the actor airborne): a call that starts on_ground with
\* the jump key held and the latch clear ends with on_ground = FALSE, for
\* every dt >= 0.
C6_JumpMakesAirborne ==
    (Called /\ last.pre.on_ground /\ last.keys.w /\ ~last.pre.jump_key_is_holding)
        => ~on_ground

\* C7 (edge trigger): the jump impulse is applied only by a call that sees the
\* jump key held when the call before it saw the key released.
C7_EdgeTriggered ==
    (Called /\ last.jumped) => (last.keys.w /\ ~last.w_before)

\* C8 (no mid-air jump): the jump impulse is applied only by a call that
\* starts on_ground; a call that starts airborne never makes the velocity
\* more upward than it was, before or after the collision check.
C8_NoMidAirJump ==
    Called =>
        /\ last.jumped => last.pre.on_ground
        /\ ~last.pre.on_ground =>
              /\ last.v0.y >= last.pre.v.y
              /\ last.v0.x = last.pre.v.x
              /\ ~(v.y < 0 /\ v.y < last.pre.v.y)

\* C8 witness: the second or a later call starts airborne with the latch
\* clear and sees a fresh press of the jump key.
C8_PressInMidAir ==
    /\ frame > 1
    /\ ~last.pre.on_ground
    /\ last.keys.w /\ ~last.w_before
    /\ ~last.pre.jump_key_is_holding

\* C9 (worked scenario): airborne player at (100,100) with v = (0,0), one
\* floor with top 140 from x = 0 to 200, dt = 1: gravity makes v.y = 20, the
\* tentative bottom is 140, the classifier says ON_BOTTOM, and the call
\* commits pos.y = 120, v.y = 0, on_ground = TRUE.
C9_Pre ==
    /\ frame = 1
    /\ objectives = Floor
    /\ last.pre = Player(Vector2(200, 200))
    /\ last.dt = 4

C9_WorkedScenario ==
    C9_Pre =>
        /\ objectives[1].top = 140 /\ objectives[1].left = 0
        /\ right(objectives[1]) = 200
        /\ last.v0 = Vector2(0, 20)
        /\ bottom(last.trect) = 140
        /\ last.flags = << ON_BOTTOM >>
        /\ pos = Vector2(200, 2 * (140 - 20))
        /\ v = Vector2(0, 0)
        /\ on_ground

\* C9 witness: the scenario's call has been made.
C9_ScenarioRun == C9_Pre /\ on_ground

\* C10 (classifier completeness): if an X-axis flag and a Y-axis flag hold
\* for the tentative box, check_collision returns a flag other than NONE,
\* and the same flag for every previous-frame box.
C10_ClassifierComplete ==
    ( /\ cc_out # -1
      /\ OnLeft(cc_in.target, cc_in.obj) \/ OnRight(cc_in.target, cc_in.obj)
      /\ OnTop(cc_in.target, cc_in.obj) \/ OnBottom(cc_in.target, cc_in.obj) )
    => ( /\ cc_out # NONE
         /\ \A p \in CcTargets :
               check_collision(cc_in.target, p, cc_in.obj) = cc_out )

\* C11 (classifier range): check_collision returns one of the nine values
\* NONE, ON_BOTTOM, ON_TOP, ON_LEFT, ON_RIGHT, ON_BOTTOM_LEFT,
\* ON_BOTTOM_RIGHT, ON_TOP_LEFT, ON_TOP_RIGHT; so never a value holding both
\* ON_TOP and ON_BOTTOM or both ON_LEFT and ON_RIGHT.
CollisionFlag ==
    { NONE, ON_BOTTOM, ON_TOP, ON_LEFT, ON_RIGHT,
      ON_BOTTOM_LEFT, ON_BOTTOM_RIGHT, ON_TOP_LEFT, ON_TOP_RIGHT }

HasFlag(flag, bit) == (flag \div bit) % 2 = 1

C11_ClassifierRange ==
    cc_out # -1 =>
        /\ cc_out \in CollisionFlag
        /\ ~(HasFlag(cc_out, ON_TOP) /\ HasFlag(cc_out, ON_BOTTOM))
        /\ ~(HasFlag(cc_out, ON_LEFT) /\ HasFlag(cc_out, ON_RIGHT))

\* C11 witness: a call whose target passes both edge tests of one axis
\* (top and bottom, or left and right) together with a test of the other
\* axis, and that returned a flag.
C11_OpposingTestsClassified ==
    /\ cc_out # -1
    /\ cc_out # NONE
    /\ \/ ( /\ OnTop(cc_in.target, cc_in.obj) /\ OnBottom(cc_in.target, cc_in.obj)
            /\ OnLeft(cc_in.target, cc_in.obj) \/ OnRight(cc_in.target, cc_in.obj) )
       \/ ( /\ OnLeft(cc_in.target, cc_in.obj) /\ OnRight(cc_in.target, cc_in.obj)
            /\ OnTop(cc_in.target, cc_in.obj) \/ OnBottom(cc_in.target, cc_in.obj) )

\* The loop of lines 207-270 in the last call, seen objective by objective:
\* Upto(k) is v, pos and on_ground after the first k objectives.
Upto(k) ==
    CollisionCheck([v |-> last.v0,
                    pos |-> TentativePos(last.pre.pos, last.v0, last.dt),
                    on_ground |-> FALSE],
                   last.trect, last.pre.rect, SubSeq(objectives, 1, k), 1)

CorrectedY(i) ==
    Upto(i).pos.y # Upto(i - 1).pos.y \/ Upto(i).v.y # Upto(i - 1).v.y
CorrectedX(i) ==
    Upto(i).pos.x # Upto(i - 1).pos.x \/ Upto(i).v.x # Upto(i - 1).v.x

\* C12 (velocity guard): in every call, an objective changes pos or v on
\* the y axis only if its flag holds ON_BOTTOM and v.y > 0, or holds ON_TOP
\* and v.y < 0; it changes pos or v on the x axis only if its flag holds
\* ON_LEFT and v.x < 0, or holds ON_RIGHT and v.x > 0 (v as it is when the
\* objective is visited).  A player at rest or moving away on an axis is
\* left alone on that axis.
C12_VelocityGuard ==
    Called =>
        \A i \in Objs :
            /\ CorrectedY(i) =>
                   \/ HasFlag(last.flags[i], ON_BOTTOM) /\ Upto(i - 1).v.y > 0
                   \/ HasFlag(last.flags[i], ON_TOP) /\ Upto(i - 1).v.y < 0
            /\ CorrectedX(i) =>
                   \/ HasFlag(last.flags[i], ON_LEFT) /\ Upto(i - 1).v.x < 0
                   \/ HasFlag(last.flags[i], ON_RIGHT) /\ Upto(i - 1).v.x > 0

\* C12 witness: an objective flagged ON_BOTTOM while the player moves up
\* (v.y < 0) left pos.y and v.y as they were.
C12_MovingAwayUntouched ==
    /\ Called
    /\ \E i \in Objs :
          /\ HasFlag(last.flags[i], ON_BOTTOM)
          /\ Upto(i - 1).v.y < 0
          /\ ~CorrectedY(i)
    /\ v.y < 0

\* C13 (on_ground means a true landing): after every call, on_ground holds
\* only if some objective's flag holds ON_BOTTOM and the previous box's
\* bottom is at or above that objective's top; and an objective whose top is
\* above the previous box's bottom never turns on_ground on.
C13_TrueLanding ==
    Called =>
        /\ on_ground =>
               \E i \in Objs :
                   /\ HasFlag(last.flags[i], ON_BOTTOM)
                   /\ bottom(last.pre.rect) <= objectives[i].top
        /\ \A i \in Objs :
               (Upto(i).on_ground /\ ~Upto(i - 1).on_ground) =>
                   /\ HasFlag(last.flags[i], ON_BOTTOM)
                   /\ bottom(last.pre.rect) <= objectives[i].top

\* C13 witness: the player slid sideways into an objective (previous box
\* beside it, bottom below its top), the flag holds ON_BOTTOM, and the call
\* ends with on_ground false.
C13_SlidIntoBlock ==
    /\ Called
    /\ ~on_ground
    /\ last.v0.x # 0
    /\ \E i \in Objs :
          /\ HasFlag(last.flags[i], ON_BOTTOM)
          /\ bottom(last.pre.rect) > objectives[i].top
          /\ ~OverlapX(last.pre.rect, objectives[i])

\* C14 (corner resolution gated on the previous box): an objective flagged
\* ON_BOTTOM_LEFT or ON_BOTTOM_RIGHT changes v.y or pos.y only if the
\* previous box's bottom is at or above the objective's top.
C14_CornerGatedOnPrev ==
    Called =>
        \A i \in Objs :
            ( /\ last.flags[i] \in {ON_BOTTOM_LEFT, ON_BOTTOM_RIGHT}
              /\ CorrectedY(i) )
            => bottom(last.pre.rect) <= objectives[i].top

\* the last call ended with the player set down on objective b
LandedOn(b) ==
    /\ HasFlag(last.flags[b], ON_BOTTOM)
    /\ last.v0.y > 0
    /\ v.y = 0
    /\ pos.y = StopOnTop(objectives[b])

\* C15 (corner non-stick): if the previous box is flush against the right
\* side of an objective w (prev.left = w.right) and the player falls
\* (v.y > 0) with v.x <= 0 onto an objective b, the call leaves pos.x as it
\* was, equal to w.right + half width.
C15_CornerNonStick ==
    Called =>
        \A w \in Objs, b \in Objs :
            ( /\ last.pre.rect.left = right(objectives[w])
              /\ last.v0.x <= 0
              /\ LandedOn(b) )
            => ( /\ pos.x = last.pre.pos.x
                 /\ pos.x = StopOnRight(objectives[w]) )

\* C15 amended: the same with the player at pos.x = w.right + half width,
\* in the air and with v.x = 0 when the call starts: pos.x and v.x stay as
\* they were and neither w nor b corrects the x axis.
C15_CornerNonStickAtRest ==
    Called =>
        \A w \in Objs, b \in Objs :
            ( /\ last.pre.pos.x = StopOnRight(objectives[w])
              /\ ~last.pre.on_ground
              /\ last.pre.v.x = 0
              /\ LandedOn(b) )
            => ( /\ pos.x = last.pre.pos.x
                 /\ v.x = 0
                 /\ ~CorrectedX(w)
                 /\ ~CorrectedX(b) )

\* C15 witness: a player flush against the right side of a wall, in the
\* air with v.x = 0, fell onto another objective and was set down on it.
C15_FlushAndLanded ==
    /\ Called
    /\ \E w \in Objs, b \in Objs :
          /\ w # b
          /\ OverlapY(last.pre.rect, objectives[w])
          /\ last.pre.pos.x = StopOnRight(objectives[w])
          /\ last.pre.rect.left = right(objectives[w])
          /\ ~last.pre.on_ground
          /\ last.pre.v.x = 0
          /\ LandedOn(b)
          /\ on_ground

\* C16 (gravity and fall-speed clamp): a call that starts with on_ground
\* false has pre-collision v.y = min(previous v.y + FALLING_SPEED, MAX_SPEED)
\* for every dt, and in every state -jumping_speed <= v.y <= MAX_SPEED.
C16_GravityClamp ==
    /\ (0 - jumping_speed) <= v.y
    /\ v.y <= MAX_SPEED
    /\ (Called /\ ~last.pre.on_ground) =>
           last.v0.y = Min(last.pre.v.y + FALLING_SPEED, MAX_SPEED)

\* C16 witness: a call made in the air with previous v.y + FALLING_SPEED
\* above MAX_SPEED, whose pre-collision v.y is MAX_SPEED.
C16_ClampReached ==
    /\ Called
    /\ ~last.pre.on_ground
    /\ last.pre.v.y + FALLING_SPEED > MAX_SPEED
    /\ last.v0.y = MAX_SPEED

\* C17 (grounded velocity comes from input only): a call that starts with
\* on_ground true has pre-collision v.x = -speed if K_a is held, else +speed
\* if K_d is held, else 0, and pre-collision v.y = -jumping_speed if the
\* jump fires (K_w held, latch clear), else 0, whatever v was before.
C17_GroundedVelocityFromInput ==
    (Called /\ last.pre.on_ground) =>
        /\ last.v0.x = IF last.keys.a THEN 0 - speed
                       ELSE IF last.keys.d THEN speed ELSE 0
        /\ last.v0.y = IF last.keys.w /\ ~last.pre.jump_key_is_holding
                       THEN 0 - jumping_speed ELSE 0

\* C17 witness: a grounded call with K_a and K_d both held, made while the
\* previous velocity pointed right, has pre-collision v.x = -speed.
C17_LeftWinsOverOldVelocity ==
    /\ Called
    /\ last.pre.on_ground
    /\ last.pre.v.x > 0
    /\ last.keys.a /\ last.keys.d
    /\ last.v0.x = 0 - speed

\* C18 (ceiling contact): in every call with pre-collision v.y < 0 whose
\* tentative box is horizontally within an objective (on_left and on_right)
\* and whose top lies inside the objective (on_top) or crossed its bottom
\* since the previous frame (prev.top >= bottom > tentative top), the call
\* ends with v.y = 0 and pos.y = bottom + half height, and that objective
\* does not turn on_ground on.
C18_CeilingContact ==
    Called =>
        \A i \in Objs :
            ( /\ last.v0.y < 0
              /\ OnLeft(last.trect, objectives[i])
              /\ OnRight(last.trect, objectives[i])
              /\ \/ OnTop(last.trect, objectives[i])
                 \/ ( /\ last.pre.rect.top >= bottom(objectives[i])
                      /\ bottom(objectives[i]) > last.trect.top ) )
            => ( /\ v.y = 0
                 /\ pos.y = StopOnBottom(objectives[i])
                 /\ ~(Upto(i).on_ground /\ ~Upto(i - 1).on_ground) )

\* C19 (invalid timestep rejected): a call of move with a negative dt
\* leaves pos, v, on_ground and the jump latch as they were before the call.
C19_NegativeDtRejected ==
    (Called /\ last.dt < 0) =>
        /\ pos = last.pre.pos
        /\ v = last.pre.v
        /\ on_ground = last.pre.on_ground
        /\ jump_key_is_holding = last.pre.jump_key_is_holding

\* C20 (degenerate obstacles are skipped): for an objective of zero width
\* or zero height check_collision returns NONE, whatever the previous and
\* the tentative box are.
C20_DegenerateSkipped ==
    ( /\ cc_out # -1
      /\ cc_in.obj.width = 0 \/ cc_in.obj.height = 0 )
    => cc_out = NONE

\* C21 (no penetration): with every objective at least as wide and as high
\* as the Player and a start clear of all of them, the committed box never
\* shares a region of positive area with an objective, after any calls with
\* any keys and any dt >= 0.
C21_NoPenetration ==
    (\A i \in Objs : objectives[i].width >= width /\ objectives[i].height >= height)
    => \A i \in Objs :
           ~(OverlapX(rect, objectives[i]) /\ OverlapY(rect, objectives[i]))

RestsOn(r, o) == bottom(r) = o.top /\ (OnLeft(r, o) \/ OnRight(r, o))

C23_FreshPressJumps ==
    (frame > 1 /\ ~last.w_before) =>
        /\ ~last.pre.jump_key_is_holding
        /\ (last.keys.w /\ last.pre.on_ground) => last.jumped

\* objective i's flag and the velocity at its turn call for a correction of
\* the y axis (x axis)
MatchY(i) ==
    \/ HasFlag(last.flags[i], ON_BOTTOM) /\ Upto(i - 1).v.y > 0
    \/ HasFlag(last.flags[i], ON_TOP) /\ Upto(i - 1).v.y < 0
MatchX(i) ==
    \/ HasFlag(last.flags[i], ON_LEFT) /\ Upto(i - 1).v.x < 0
    \/ HasFlag(last.flags[i], ON_RIGHT) /\ Upto(i - 1).v.x > 0

\* C24 (first correction wins per axis): in one call at most one objective
\* changes pos or v on the y axis and at most one on the x axis; the one
\* that does is the first in list order whose flag and velocity guard match.
C24_FirstCorrectionWins ==
    Called =>
        \A i \in Objs :
            /\ CorrectedY(i) =>
                   /\ \A j \in Objs : CorrectedY(j) => j = i
                   /\ \A j \in 1 .. (i - 1) : ~MatchY(j)
            /\ CorrectedX(i) =>
                   /\ \A j \in Objs : CorrectedX(j) => j = i
                   /\ \A j \in 1 .. (i - 1) : ~MatchX(j)

\* the stand-alone call took no branch of the ladder of lines 55-70
CcNoDirect ==
    DirectOverlap(OnTop(cc_in.target, cc_in.obj), OnBottom(cc_in.target, cc_in.obj),
                  OnLeft(cc_in.target, cc_in.obj), OnRight(cc_in.target, cc_in.obj)) = -1

\* the target's bottom crossed the object's top since the previous frame
CcCrossedDown ==
    /\ bottom(cc_in.prev) <= cc_in.obj.top
    /\ cc_in.obj.top < bottom(cc_in.target)

\* the target's left (right) edge crossed the object's right (left) edge
CcCrossedSideways ==
    \/ cc_in.prev.left >= right(cc_in.obj) /\ right(cc_in.obj) > cc_in.target.left
    \/ right(cc_in.prev) <= cc_in.obj.left /\ cc_in.obj.left < right(cc_in.target)

\* C25 (synthesized tunneling flags): when no branch of the direct ladder
\* matches and the bottom crossed the object's top, the result is ON_BOTTOM
\* if on_left and on_right hold for the tentative box, ON_BOTTOM_LEFT if
\* only on_left, ON_BOTTOM_RIGHT if only on_right, whatever the other
\* crossings are; with neither, the result is what the sideways crossings
\* give: NONE, or a flag with ON_LEFT or ON_RIGHT after such a crossing.
C25_SynthesizedFlags ==
    (cc_out # -1 /\ CcNoDirect /\ CcCrossedDown) =>
        LET on_left == OnLeft(cc_in.target, cc_in.obj)
            on_right == OnRight(cc_in.target, cc_in.obj)
        IN  /\ (on_left /\ on_right) => cc_out = ON_BOTTOM
            /\ (on_left /\ ~on_right) => cc_out = ON_BOTTOM_LEFT
            /\ (~on_left /\ on_right) => cc_out = ON_BOTTOM_RIGHT
            /\ (~on_left /\ ~on_right) =>
                   \/ cc_out = NONE
                   \/ /\ CcCrossedSideways
                      /\ HasFlag(cc_out, ON_LEFT) \/ HasFlag(cc_out, ON_RIGHT)

\* C25 witness: a call without direct overlap in which the target crossed
\* the object's top and its right edge at once and that returned the flag
\* of the downward crossing.
C25_DownBeforeSideways ==
    /\ cc_out # -1
    /\ CcNoDirect
    /\ CcCrossedDown
    /\ cc_in.prev.left >= right(cc_in.obj)
    /\ right(cc_in.obj) > cc_in.target.left
    /\ OnTop(cc_in.target, cc_in.obj)
    /\ cc_out \in {ON_BOTTOM, ON_BOTTOM_RIGHT}

\* C26 (grounded implies no vertical velocity): after every call, for every
\* dt >= 0, on_ground implies v.y = 0.
C26_GroundedAtRest ==
    (Called /\ on_ground) => v.y = 0

\* C27 (grounded means supported): after every call, on_ground implies that
\* some objective's top is the committed box's bottom and that objective
\* and the box share a horizontal stretch of positive width.
C27_GroundedSupported ==
    (Called /\ on_ground) =>
        \E i \in Objs :
            /\ objectives[i].top = bottom(rect)
            /\ OverlapX(rect, objectives[i])

\* The objectives list reordered by f, a permutation of its indices
Reordered(f) == [i \in Objs |-> objectives[f[i]]]

\* C28 (on_ground is order-independent): for the pre-call state, keys and dt
\* of the last call, the call made with any permutation of the objectives
\* list commits the on_ground value that the call committed.
C28_OnGroundOrderIndependent ==
    Called =>
        \A f \in Permutations(Objs) :
            move(last.pre, Reordered(f), last.dt, last.keys).on_ground = on_ground

\* C28 witness: a call that ended on_ground and that, with the objectives in
\* another order, would have committed another position.
C28_OrderChangesPos ==
    /\ Called
    /\ on_ground
    /\ \E f \in Permutations(Objs) :
          move(last.pre, Reordered(f), last.dt, last.keys).pos # pos

\* The rectangle r reflected about the vertical axis x = 0: its left edge
\* becomes the negated right edge.
Mirror(r) == [r EXCEPT !.left = 0 - right(r)]

\* The flag with ON_LEFT and ON_RIGHT exchanged
SwapLeftRight(flag) ==
    flag - (IF HasFlag(flag, ON_LEFT) THEN ON_LEFT - ON_RIGHT ELSE 0)
         - (IF HasFlag(flag, ON_RIGHT) THEN ON_RIGHT - ON_LEFT ELSE 0)

\* C29 (left/right mirror symmetry of the classifier): check_collision of
\* the mirrored target, previous box and object returns the flag of the
\* original call with ON_LEFT and ON_RIGHT exchanged.
C29_MirrorSymmetry ==
    cc_out # -1 =>
        check_collision(Mirror(cc_in.target), Mirror(cc_in.prev),
                        Mirror(cc_in.obj)) = SwapLeftRight(cc_out)

\* C30 (input is ignored while airborne): a call that starts with on_ground
\* false commits the same pos, v, on_ground and jump latch whatever keys are
\* held, and its v.x is the v.x it started with or 0.
C30_AirborneIgnoresInput ==
    (Called /\ ~last.pre.on_ground) =>
        /\ \A k \in Keys :
              LET new == move(last.pre, objectives, last.dt, k)
              IN  /\ new.pos = pos
                  /\ new.v = v
                  /\ new.on_ground = on_ground
                  /\ new.jump_key_is_holding = jump_key_is_holding
        /\ v.x \in {last.pre.v.x, 0}

\* C30 witness: a call that started in the air, moving sideways with the
\* latch set, was made with the opposite direction key and without the jump
\* key, and ran into a wall that stopped it.
C30_AirborneKeysHeld ==
    /\ Called
    /\ ~last.pre.on_ground
    /\ last.pre.jump_key_is_holding
    /\ ~last.keys.w
    /\ \/ last.pre.v.x < 0 /\ last.keys.d /\ ~last.keys.a
       \/ last.pre.v.x > 0 /\ last.keys.a
    /\ v.x = 0
    /\ jump_key_is_holding

\* C31 (walking does not change height): a call that starts with on_ground
\* true and in which no jump fires leaves pos.y as it was, whatever the
\* objectives, the left/right keys and dt.
C31_WalkingKeepsHeight ==
    (Called /\ last.pre.on_ground /\ ~last.jumped) => pos.y = last.pre.pos.y

\* C31 witness: a call that started on the ground, without a jump, with a
\* direction key held and dt > 0, moved the player sideways, and some
\* objective was in contact with the tentative box.
C31_WalkedSideways ==
    /\ Called
    /\ last.pre.on_ground
    /\ ~last.jumped
    /\ last.dt > 0
    /\ last.keys.a \/ last.keys.d
    /\ pos.x # last.pre.pos.x
    /\ \E i \in Objs : last.flags[i] # NONE

\* The last call started in the air with v.x = 0, the box above the single
\* floor and horizontally within it.
FellFromAboveFloor ==
    /\ Called
    /\ Len(objectives) = 1
    /\ ~last.pre.on_ground
    /\ last.pre.v.x = 0
    /\ bottom(last.pre.rect) <= objectives[1].top
    /\ objectives[1].left <= last.pre.rect.left
    /\ right(last.pre.rect) <= right(objectives[1])

\* The box has passed the floor's top: its bottom is below it.
PassedFloor == Len(objectives) = 1 /\ bottom(rect) > objectives[1].top

\* on_ground with pos.y = floor.top - half height
LandedOnFloor ==
    /\ Len(objectives) = 1
    /\ on_ground
    /\ pos.y = StopOnTop(objectives[1])

\* In a fall onto a single floor without keys, a box that has passed the
\* floor's top stays past it and is not on_ground: on_ground is set under
\* prev_rect.bottom <= obj_rect.top only (line 218), and the falling box
\* never moves up.  Holds in every state of SpecLand.
PassedFloorStaysAirborne ==
    (Called /\ Len(objectives) = 1
            /\ bottom(last.pre.rect) > objectives[1].top) =>
        /\ ~on_ground
        /\ PassedFloor

\* C32 (the actor eventually lands): from an airborne state with v.x = 0
\* whose box is above the floor and horizontally within it, with every
\* frame having dt > 0, on_ground with pos.y = floor.top - half height is
\* reached after finitely many calls.  A box whose bottom is below the
\* floor's top never lands (PassedFloorStaysAirborne), so the claim needs
\* every call of such a fall to end with the box's bottom at or above the
\* floor's top: no call takes the box past the floor.
C32_FallNeverPassesFloor == FellFromAboveFloor => ~PassedFloor

\* C33 (no penetration in the top-down variant): with every block at least
\* as large as the Player and a start that overlaps no block, the committed
\* box never overlaps the interior of a block, whatever the keys and dt.
C33_TopDownNoPenetration ==
    (\A i \in Objs : objectives[i].width >= width
                     /\ objectives[i].height >= height)
    => \A i \in Objs : ~(OverlapX(rect, objectives[i])
                         /\ OverlapY(rect, objectives[i]))

\* The tentative box of the last top-down call overlaps a corner of
\* objective i and nothing else of it: one of on_top, on_bottom and one of
\* on_left, on_right, and the two boxes share some area.
AtCorner(i) ==
    LET c == collision_check_collision(last.trect, objectives[i])
    IN  /\ c.on_top # c.on_bottom
        /\ c.on_left # c.on_right
        /\ OverlapX(last.trect, objectives[i])
        /\ OverlapY(last.trect, objectives[i])

\* How far the previous box was from the face of objective i that the
\* tentative box entered, on the y and on the x axis: positive when clear of
\* it, 0 when flush with it, negative when already beside it.
GapY(i) ==
    IF collision_check_collision(last.trect, objectives[i]).on_top
    THEN last.pre.rect.top - bottom(objectives[i])
    ELSE objectives[i].top - bottom(last.pre.rect)

GapX(i) ==
    IF collision_check_collision(last.trect, objectives[i]).on_left
    THEN last.pre.rect.left - right(objectives[i])
    ELSE objectives[i].left - right(last.pre.rect)

\* Where the corner of objective i stops the Player on each axis
CornerY(i) ==
    IF collision_check_collision(last.trect, objectives[i]).on_top
    THEN BelowOf(objectives[i]) ELSE AboveOf(objectives[i])

CornerX(i) ==
    IF collision_check_collision(last.trect, objectives[i]).on_left
    THEN RightOf(objectives[i]) ELSE LeftOf(objectives[i])

\* The tentative position of the last top-down call
LastTentativePos == collision_TentativePos(last.pre.pos, last.v0, last.dt)

\* The Player was held on the face that it entered on the x axis and keeps
\* its velocity along that face; the same on the y axis.
HeldOnX(i) ==
    /\ v = Vector2(FromInt(0), last.v0.y)
    /\ pos = Vector2(CornerX(i), LastTentativePos.y)

HeldOnY(i) ==
    /\ v = Vector2(last.v0.x, FromInt(0))
    /\ pos = Vector2(LastTentativePos.x, CornerY(i))

\* C34 (diagonal corner approach in the top-down variant): when the
\* tentative box overlaps only a corner of a block, then (a) if the previous
\* box was strictly diagonal to the block, both axes are corrected: v is
\* (0, 0) and the committed box touches the corner with both edges; (b) if
\* the previous box was flush with a face of the block, the Player is held
\* on that face and keeps the velocity along it; flush with both faces at
\* once, it is held on one of them.
C34_DiagonalCorner ==
    Called =>
        \A i \in Objs :
            AtCorner(i) =>
                /\ (GapY(i) > 0 /\ GapX(i) > 0) =>
                       /\ v = Vector2(FromInt(0), FromInt(0))
                       /\ pos = Vector2(CornerX(i), CornerY(i))
                       /\ rect.top = FloatToInt(Sub(CornerY(i), HalfHeight))
                       /\ rect.left = FloatToInt(Sub(CornerX(i), HalfWidth))
                /\ (GapX(i) = 0 /\ GapY(i) # 0) => HeldOnX(i)
                /\ (GapY(i) = 0 /\ GapX(i) # 0) => HeldOnY(i)
                /\ (GapX(i) = 0 /\ GapY(i) = 0) => (HeldOnX(i) \/ HeldOnY(i))

\* C35 (held jump in the earlier platformer variant): while K_w is held
\* without a break, v.y = -650 is assigned at most once; a landing with the
\* key still held starts no second jump.
C35_StageJumpOncePerHold ==
    (Called /\ last.keys.w /\ last.jumped) => hold_jumps = 1

====
